---- MODULE Spec2Model ----
(***************************************************************************)
(* The chart registry of dopio_server (src/src/chart.rs) and the handlers  *)
(* that feed it (src/src/main.rs).                                         *)
(*                                                                         *)
(* Charts is RwLock<endorphin::HashMap<usize, RwLock<Chart>, TTIPolicy>>.  *)
(* Every request runs on its own thread of control; a thread is modelled   *)
(* by its position (pc) inside the Charts method it executes.  A method's  *)
(* arguments are private to the calling thread, so each argument is drawn  *)
(* at the step that first reads it.                                        *)
(*                                                                         *)
(* The endorphin crate is not part of the repository.  Its map is modelled *)
(* by its time-to-idle contract (operators named Map_...): an entry whose  *)
(* last access is more than tti in the past is invisible to lookups        *)
(* whether or not it has been removed from the table, get refreshes the    *)
(* last access, insert replaces the entry and may sweep expired entries.   *)
(***************************************************************************)
EXTENDS Integers, Sequences, FiniteSets, TLC

\* ------------------------------------------------------------- bounds
\* Largest number of samples inserted into the registered lines of one chart.
MaxHist == 3
\* Last instant of the clock.
MaxTime == 2

Threads == {1, 2}

\* The input domains of a run; dom is fixed by Init and never changes.
DataDomain ==
    [ids |-> {1}, labels |-> {"a", "b"}, values |-> {1, 2},
     colors |-> {<<255, 0, 0>>, <<0, 0, 255>>}, sizes |-> {0, 1, 2},
     ttis |-> {1}, maxtime |-> 0, maxhist |-> MaxHist]
RegistryDomain ==
    [ids |-> {1, 2}, labels |-> {"a"}, values |-> {1},
     colors |-> {<<255, 0, 0>>}, sizes |-> {},
     ttis |-> {1}, maxtime |-> MaxTime, maxhist |-> 1]
ProgressDomain ==
    [ids |-> {1, 2}, labels |-> {"a"}, values |-> {1},
     colors |-> {<<255, 0, 0>>}, sizes |-> {},
     ttis |-> {1}, maxtime |-> 0, maxhist |-> 1]
Captions == {"Temp"}
Intervals == {1000}
YRanges == {<<0, 100>>}

\* ------------------------------------------------------- chart.rs types
\* enum ChartType { Stack, PassThru(usize) }
ChartType(sizes) == {<<"Stack">>} \cup {<<"PassThru", n>> : n \in sizes}

\* struct ChartInfo
ChartInfo(sizes) == [caption : Captions, chart_type : ChartType(sizes),
                     interval : Intervals, y_range : YRanges]

\* enum Error, and the value of Ok(())
Error == {"InvalidLineLabelError", "InvalidChartNumberError", "AlreadyExistIndexError"}
Ok == "Ok"

\* Fault variant of LabelMissing: the error of a missing chart is returned.
LabelMissing_as_chart == "InvalidChartNumberError"

\* Chart::insert_data, line 70: .ok_or(Error::InvalidLineLabelError)?
LabelMissing == "InvalidLineLabelError"

None == [none |-> TRUE]
EmptyLines == <<>>

\* Chart::new
Chart_new(caption, chart_type, interval, y_range) ==
    [info |-> [caption |-> caption, chart_type |-> chart_type,
               interval |-> interval, y_range |-> y_range],
     lines |-> EmptyLines]

\* Fault variant of Chart_new_label: a label that exists keeps its samples
\* (entry().or_insert() followed by a change of the color).
Chart_new_label_keep(chart, label, color) ==
    [chart EXCEPT !.lines =
        (label :> <<(IF label \in DOMAIN chart.lines THEN chart.lines[label][1] ELSE <<>>),
                    color>>) @@ chart.lines]

\* Fault variant of Chart_new_label: the lines are emptied first
\* (self.clear() before the insert).
Chart_new_label_clearing(chart, label, color) ==
    [chart EXCEPT !.lines = (label :> <<(<<>>), color>>)]

\* Chart::new_label: HashMap::insert replaces whatever the label held.
Chart_new_label(chart, label, color) ==
    [chart EXCEPT !.lines = (label :> <<(<<>>), color>>) @@ chart.lines]

\* Chart::insert_data, line 67-70: self.lines.get_mut(&label)
Chart_has_label(chart, label) == label \in DOMAIN chart.lines

\* Chart::insert_data, line 77: PassThru and line.len() == *viewport_size
Chart_must_pop(chart, label) ==
    /\ chart.info.chart_type[1] = "PassThru"
    /\ Len(chart.lines[label][1]) = chart.info.chart_type[2]

\* VecDeque::pop_front: nothing happens on an empty deque.
pop_front(line) == IF line = <<>> THEN line ELSE Tail(line)

\* Fault variant of push_back: the sample goes to the front (push_front).
push_back_front(line, data) == <<data>> \o line

\* VecDeque::push_back
push_back(line, data) == Append(line, data)

\* Chart::insert_data, line 78
Chart_pop(chart, label) ==
    [chart EXCEPT !.lines[label][1] = pop_front(@)]

\* Chart::insert_data, lines 74 and 80
Chart_push(chart, label, data) ==
    [chart EXCEPT !.lines[label][1] = push_back(@, data)]

\* Chart::resize_viewport (private, never called)
Chart_resize_viewport(chart, size) ==
    IF chart.info.chart_type[1] = "Stack" THEN chart
    ELSE [chart EXCEPT !.info.chart_type = <<"PassThru", size>>]

\* Chart::clear (private, never called)
Chart_clear(chart) == [chart EXCEPT !.lines = EmptyLines]

\* ------------------------------------------------ std::sync::RwLock
FreeLock == [readers |-> {}, writer |-> 0]
\* RwLock::read is granted when no writer holds the lock.
CanRead(lock) == lock.writer = 0
\* RwLock::write is granted when nobody holds the lock.
CanWrite(lock) == lock.writer = 0 /\ lock.readers = {}

\* ------------------------------- endorphin::HashMap with TTIPolicy
Map_is_expired(e, t) == t - e.last > e.tti
Map_contains_key(m, k, t) == m[k] # None /\ ~Map_is_expired(m[k], t)
Map_touch(m, k, t) == [m EXCEPT ![k].last = t]
Map_expired_keys(m, t) == {k \in DOMAIN m : m[k] # None /\ Map_is_expired(m[k], t)}
Map_sweep(m, ks) == [k \in DOMAIN m |-> IF k \in ks THEN None ELSE m[k]]
Map_insert(m, k, v, tti, t) ==
    [m EXCEPT ![k] = [chart |-> v, lock |-> FreeLock, tti |-> tti, last |-> t]]

\* ------------------------------------------------------------- state
VARIABLES
    charts,     \* Charts.charts: id -> None or [chart, lock, tti, last]
    reg,        \* the RwLock around the map: [readers, writer]
    now,        \* the clock
    pc,         \* thread -> position
    cur,        \* thread -> [index, label, data] of the running call
    acc,        \* thread -> the part of the lines already serialized
    ret,        \* thread -> result of the thread's last finished call
    hist,       \* id -> label -> samples inserted since the label's registration
    life,       \* id -> [born: instant of the last creation, gen: creations so far, 2 for more]
    dom         \* the input domains of the run

vars == <<charts, reg, now, pc, cur, acc, ret, hist, life, dom>>

Ids == dom.ids
Labels == dom.labels
Values == dom.values
Colors == dom.colors
TTIs == dom.ttis

NoCur == [index |-> 0, label |-> "", data |-> 0]
NoRet == "none"
NoHist == [l \in Labels |-> <<>>]

\* Charts::new, and every handler thread before its first request.
InitWith(d) ==
    /\ dom = d
    /\ charts = [i \in Ids |-> None]
    /\ reg = FreeLock
    /\ now = 0
    /\ pc = [t \in Threads |-> "idle"]
    /\ cur = [t \in Threads |-> NoCur]
    /\ acc = [t \in Threads |-> <<>>]
    /\ ret = [t \in Threads |-> NoRet]
    /\ hist = [i \in Ids |-> NoHist]
    /\ life = [i \in Ids |-> [born |-> 0, gen |-> 0]]

\* The number of samples inserted into the lines of chart i since their registration.
RECURSIVE HistTotal(_, _)
HistTotal(i, ls) ==
    IF ls = {} THEN 0
    ELSE LET l == CHOOSE x \in ls : TRUE
         IN Len(hist[i][l]) + HistTotal(i, ls \ {l})

Init == InitWith(RegistryDomain)
InitData == InitWith(DataDomain)
InitProgress == InitWith(ProgressDomain)

\* The method returns res to its handler.
Return(t, res) ==
    /\ pc' = [pc EXCEPT ![t] = "idle"]
    /\ cur' = [cur EXCEPT ![t] = NoCur]
    /\ ret' = [ret EXCEPT ![t] = res]

\* Fault variant of ReleaseRead: the read guard is leaked (mem::forget).
ReleaseRead_kept(lock, t) == lock

ReleaseRead(lock, t) == [lock EXCEPT !.readers = @ \ {t}]
ReleaseWrite(lock) == [lock EXCEPT !.writer = 0]

\* A handler of main.rs enters the Charts method `first` stands for.
Call(t, first) ==
    /\ pc[t] = "idle"
    /\ pc' = [pc EXCEPT ![t] = first]
    /\ ret' = [ret EXCEPT ![t] = NoRet]
    /\ UNCHANGED <<charts, reg, now, cur, acc, hist, life, dom>>

\* self.charts.read().unwrap(); the index argument is read next.
ReadLock(t, at, next) ==
    /\ pc[t] = at
    /\ CanRead(reg)
    /\ reg' = [reg EXCEPT !.readers = @ \cup {t}]
    /\ pc' = [pc EXCEPT ![t] = next]
    /\ \E index \in Ids : cur' = [cur EXCEPT ![t].index = index]
    /\ UNCHANGED <<charts, now, acc, ret, hist, life, dom>>

\* Fault variant of Lookup: the entry is taken from the table as it is, expired or not.
Lookup_stale(t, at, next) ==
    /\ pc[t] = at
    /\ LET index == cur[t].index IN
        IF charts[index] # None
        THEN /\ charts' = Map_touch(charts, index, now)
             /\ pc' = [pc EXCEPT ![t] = next]
             /\ UNCHANGED <<reg, cur, ret>>
        ELSE /\ reg' = ReleaseRead(reg, t)
             /\ Return(t, "InvalidChartNumberError")
             /\ UNCHANGED charts
    /\ UNCHANGED <<now, acc, hist, life, dom>>

\* Fault variant of Lookup: the lookup does not count as an access of the entry.
Lookup_notouch(t, at, next) ==
    /\ pc[t] = at
    /\ LET index == cur[t].index IN
        IF Map_contains_key(charts, index, now)
        THEN /\ pc' = [pc EXCEPT ![t] = next]
             /\ UNCHANGED <<charts, reg, cur, ret>>
        ELSE /\ reg' = ReleaseRead(reg, t)
             /\ Return(t, "InvalidChartNumberError")
             /\ UNCHANGED charts
    /\ UNCHANGED <<now, acc, hist, life, dom>>

\* Fault variant of Lookup: an id that is not in the registry is given an
\* empty chart on the spot (entry(index).or_insert_with(..)).
Lookup_create(t, at, next) ==
    /\ pc[t] = at
    /\ LET index == cur[t].index IN
        /\ charts' = IF Map_contains_key(charts, index, now)
                     THEN Map_touch(charts, index, now)
                     ELSE Map_insert(charts, index,
                                     Chart_new("Temp", <<"Stack">>, 1000, <<0, 100>>),
                                     1, now)
        /\ pc' = [pc EXCEPT ![t] = next]
    /\ UNCHANGED <<reg, cur, ret, now, acc, hist, life, dom>>

\* read_lock.get(&index).ok_or(Error::InvalidChartNumberError)?
Lookup(t, at, next) ==
    /\ pc[t] = at
    /\ LET index == cur[t].index IN
        IF Map_contains_key(charts, index, now)
        THEN /\ charts' = Map_touch(charts, index, now)
             /\ pc' = [pc EXCEPT ![t] = next]
             /\ UNCHANGED <<reg, cur, ret>>
        ELSE /\ reg' = ReleaseRead(reg, t)
             /\ Return(t, "InvalidChartNumberError")
             /\ UNCHANGED charts
    /\ UNCHANGED <<now, acc, hist, life, dom>>

\* Fault variant of ChartWriteLock: shared access is taken (.read()) where
\* exclusive access is needed.
ChartWriteLock_shared(t, at, next) ==
    /\ pc[t] = at
    /\ CanRead(charts[cur[t].index].lock)
    /\ charts' = [charts EXCEPT ![cur[t].index].lock.readers = @ \cup {t}]
    /\ pc' = [pc EXCEPT ![t] = next]
    /\ UNCHANGED <<reg, now, cur, acc, ret, hist, life, dom>>

\* .write().unwrap() on the chart's own lock
ChartWriteLock(t, at, next) ==
    /\ pc[t] = at
    /\ CanWrite(charts[cur[t].index].lock)
    /\ charts' = [charts EXCEPT ![cur[t].index].lock.writer = t]
    /\ pc' = [pc EXCEPT ![t] = next]
    /\ UNCHANGED <<reg, now, cur, acc, ret, hist, life, dom>>

\* Fault variant of ChartReadLock: the chart's lock is taken for writing
\* (write() in place of read()).
ChartReadLock_exclusive(t, at, next) ==
    /\ pc[t] = at
    /\ CanWrite(charts[cur[t].index].lock)
    /\ charts' = [charts EXCEPT ![cur[t].index].lock.writer = t]
    /\ pc' = [pc EXCEPT ![t] = next]
    /\ UNCHANGED <<reg, now, cur, acc, ret, hist, life, dom>>

\* .read().unwrap() on the chart's own lock
ChartReadLock(t, at, next) ==
    /\ pc[t] = at
    /\ CanRead(charts[cur[t].index].lock)
    /\ charts' = [charts EXCEPT ![cur[t].index].lock.readers = @ \cup {t}]
    /\ pc' = [pc EXCEPT ![t] = next]
    /\ UNCHANGED <<reg, now, cur, acc, ret, hist, life, dom>>

\* ------------------------------------------------- Charts::contains
contains_call(t) == Call(t, "c_lock")
contains_lock(t) == ReadLock(t, "c_lock", "c_body")
contains_body(t) ==
    /\ pc[t] = "c_body"
    /\ \E touch \in BOOLEAN :
        LET index == cur[t].index IN
        /\ charts' = IF touch /\ Map_contains_key(charts, index, now)
                     THEN Map_touch(charts, index, now) ELSE charts
        /\ Return(t, IF Map_contains_key(charts, index, now) THEN "true" ELSE "false")
    /\ reg' = ReleaseRead(reg, t)
    /\ UNCHANGED <<now, acc, hist, life, dom>>

\* --------------------------------------------- Charts::insert_chart
insert_chart_call(t) == Call(t, "ic_lock")
insert_chart_lock(t) ==
    /\ pc[t] = "ic_lock"
    /\ CanWrite(reg)
    /\ reg' = [reg EXCEPT !.writer = t]
    /\ pc' = [pc EXCEPT ![t] = "ic_body"]
    /\ \E index \in Ids : cur' = [cur EXCEPT ![t].index = index]
    /\ UNCHANGED <<charts, now, acc, ret, hist, life, dom>>

\* Fault variant of insert_chart_exists: the duplicate check is missing.
insert_chart_exists_never(index) == FALSE

\* Fault variant of insert_chart_exists: an expired entry still counts as a duplicate.
insert_chart_exists_physical(index) == charts[index] # None

\* line 117: the duplicate check of insert_chart
insert_chart_exists(index) == Map_contains_key(charts, index, now)

insert_chart_body(t) ==
    /\ pc[t] = "ic_body"
    /\ \E info \in ChartInfo(dom.sizes), tti \in TTIs :
        LET index == cur[t].index IN
        IF insert_chart_exists(index)
        THEN /\ Return(t, "AlreadyExistIndexError")
             /\ \E touch \in BOOLEAN :
                  charts' = IF touch THEN Map_touch(charts, index, now) ELSE charts
             /\ UNCHANGED <<hist, life>>
        ELSE /\ \E ks \in SUBSET Map_expired_keys(charts, now) :
                  /\ charts' = Map_insert(Map_sweep(charts, ks), index,
                                    Chart_new(info.caption, info.chart_type,
                                              info.interval, info.y_range),
                                    tti, now)
                  /\ hist' = [i \in Ids |-> IF i \in ks \cup {index} THEN NoHist ELSE hist[i]]
                  /\ life' = [i \in Ids |->
                                IF i = index
                                THEN [born |-> now,
                                      gen |-> IF life[i].gen < 2 THEN life[i].gen + 1 ELSE 2]
                                ELSE IF i \in ks THEN [life[i] EXCEPT !.born = 0]
                                ELSE life[i]]
             /\ Return(t, Ok)
    /\ reg' = ReleaseWrite(reg)
    /\ UNCHANGED <<now, acc, dom>>

\* ------------------------------------------------ Charts::new_label
new_label_call(t) == Call(t, "nl_lock")
new_label_lock(t) == ReadLock(t, "nl_lock", "nl_get")
new_label_get(t) == Lookup(t, "nl_get", "nl_wlock")
new_label_wlock(t) == ChartWriteLock(t, "nl_wlock", "nl_body")
\* Fault variant of new_label_body: the label is registered on every chart of
\* the registry (for chart in read_lock.values()).
new_label_body_all(t) ==
    /\ pc[t] = "nl_body"
    /\ \E label \in Labels, color \in Colors :
        LET i == cur[t].index IN
        /\ charts' = [k \in DOMAIN charts |->
                        IF charts[k] = None THEN None
                        ELSE [charts[k] EXCEPT
                                !.chart = Chart_new_label(@, label, color),
                                !.lock = IF k = i THEN ReleaseWrite(@) ELSE @]]
        /\ hist' = [k \in DOMAIN hist |->
                        IF charts[k] = None THEN hist[k]
                        ELSE [hist[k] EXCEPT ![label] = <<>>]]
        /\ Return(t, Ok)
    /\ reg' = ReleaseRead(reg, t)
    /\ UNCHANGED <<now, acc, life, dom>>

\* Chart::new_label under the chart's write lock, Ok(()), and the guards dropped
new_label_body(t) ==
    /\ pc[t] = "nl_body"
    /\ \E label \in Labels, color \in Colors :
        LET i == cur[t].index IN
        /\ charts' = [charts EXCEPT
                        ![i].chart = Chart_new_label(@, label, color),
                        ![i].lock = ReleaseWrite(@)]
        /\ hist' = [hist EXCEPT ![i][label] = <<>>]
        /\ Return(t, Ok)
    /\ reg' = ReleaseRead(reg, t)
    /\ UNCHANGED <<now, acc, life, dom>>

\* ---------------------------------------------- Charts::insert_data
\* The threads inside Charts::insert_data.
InsertDataPcs == {"id_lock", "id_get", "id_wlock", "id_body", "id_push"}
Inserters == {t \in Threads : pc[t] \in InsertDataPcs}
\* A request for insert_data is taken only while every call in progress can
\* still add its sample within the bound on the samples of a chart.
insert_data_call(t) ==
    /\ \A i \in Ids : HistTotal(i, Labels) + Cardinality(Inserters) < dom.maxhist
    /\ Call(t, "id_lock")
insert_data_lock(t) == ReadLock(t, "id_lock", "id_get")
insert_data_get(t) == Lookup(t, "id_get", "id_wlock")
insert_data_wlock(t) == ChartWriteLock(t, "id_wlock", "id_body")
\* Chart::insert_data up to and including pop_front
insert_data_body(t) ==
    /\ pc[t] = "id_body"
    /\ \E label \in Labels, data \in Values :
        LET i == cur[t].index IN
        IF ~Chart_has_label(charts[i].chart, label)
        THEN /\ charts' = [charts EXCEPT ![i].lock = ReleaseWrite(@)]
             /\ reg' = ReleaseRead(reg, t)
             /\ Return(t, LabelMissing)
        ELSE /\ charts' = IF Chart_must_pop(charts[i].chart, label)
                          THEN [charts EXCEPT ![i].chart = Chart_pop(@, label)]
                          ELSE charts
             /\ cur' = [cur EXCEPT ![t].label = label, ![t].data = data]
             /\ pc' = [pc EXCEPT ![t] = "id_push"]
             /\ UNCHANGED <<reg, ret>>
    /\ UNCHANGED <<now, acc, hist, life, dom>>

\* Chart::insert_data: push_back, Ok(()), and the guards dropped
insert_data_push(t) ==
    /\ pc[t] = "id_push"
    /\ LET i == cur[t].index IN
        /\ charts' = [charts EXCEPT
                        ![i].chart = Chart_push(@, cur[t].label, cur[t].data),
                        ![i].lock = ReleaseWrite(@)]
        /\ hist' = [hist EXCEPT ![i][cur[t].label] = Append(@, cur[t].data)]
        /\ Return(t, Ok)
    /\ reg' = ReleaseRead(reg, t)
    /\ UNCHANGED <<now, acc, life, dom>>

\* ------------------------------------ Charts::get_lines_as_json_string
get_lines_call(t) == Call(t, "gl_lock")
get_lines_lock(t) == ReadLock(t, "gl_lock", "gl_get")
get_lines_get(t) == Lookup(t, "gl_get", "gl_rlock")
get_lines_rlock(t) == ChartReadLock(t, "gl_rlock", "gl_ser")
\* serde_json::to_string(&chart.lines): one map entry is written
get_lines_entry(t) ==
    /\ pc[t] = "gl_ser"
    /\ LET lines == charts[cur[t].index].chart.lines IN
        \E l \in DOMAIN lines \ DOMAIN acc[t] :
            acc' = [acc EXCEPT ![t] = (l :> lines[l]) @@ @]
    /\ UNCHANGED <<charts, reg, now, pc, cur, ret, hist, life, dom>>
\* the map is written out: Ok(string), and the guards dropped
get_lines_done(t) ==
    /\ pc[t] = "gl_ser"
    /\ LET i == cur[t].index IN
        /\ DOMAIN charts[i].chart.lines \subseteq DOMAIN acc[t]
        /\ charts' = [charts EXCEPT ![i].lock = ReleaseRead(@, t)]
        /\ Return(t, Ok)
    /\ acc' = [acc EXCEPT ![t] = <<>>]
    /\ reg' = ReleaseRead(reg, t)
    /\ UNCHANGED <<now, hist, life, dom>>

\* ------------------------------------- Charts::get_info_as_json_string
get_info_call(t) == Call(t, "gi_lock")
get_info_lock(t) == ReadLock(t, "gi_lock", "gi_get")
get_info_get(t) == Lookup(t, "gi_get", "gi_rlock")
get_info_rlock(t) == ChartReadLock(t, "gi_rlock", "gi_body")
get_info_body(t) ==
    /\ pc[t] = "gi_body"
    /\ LET i == cur[t].index IN
        /\ charts' = [charts EXCEPT ![i].lock = ReleaseRead(@, t)]
        /\ Return(t, Ok)
    /\ reg' = ReleaseRead(reg, t)
    /\ UNCHANGED <<now, acc, hist, life, dom>>

\* ------------------------------------------- Charts::resize_viewport
\* Fault variant of resize_viewport: the stub forwards to
\* Chart::resize_viewport of the chart at index.
resize_viewport_applied(t) ==
    /\ pc[t] = "idle"
    /\ \E index \in Ids, size \in dom.sizes :
        /\ charts[index] # None
        /\ charts' = [charts EXCEPT ![index].chart = Chart_resize_viewport(@, size)]
    /\ UNCHANGED <<reg, now, pc, cur, acc, ret, hist, life, dom>>

\* pub fn resize_viewport(&mut self, index: usize) {} : an empty body.
resize_viewport(t) ==
    /\ pc[t] = "idle"
    /\ UNCHANGED vars

\* ------------------------------------------------------------ clock
Tick ==
    /\ now < dom.maxtime
    /\ now' = now + 1
    /\ UNCHANGED <<charts, reg, pc, cur, acc, ret, hist, life, dom>>

Next ==
    \/ Tick
    \/ \E t \in Threads :
        \/ contains_call(t) \/ contains_lock(t) \/ contains_body(t)
        \/ insert_chart_call(t) \/ insert_chart_lock(t) \/ insert_chart_body(t)
        \/ new_label_call(t) \/ new_label_lock(t) \/ new_label_get(t)
        \/ new_label_wlock(t) \/ new_label_body(t)
        \/ insert_data_call(t) \/ insert_data_lock(t) \/ insert_data_get(t)
        \/ insert_data_wlock(t) \/ insert_data_body(t) \/ insert_data_push(t)
        \/ get_lines_call(t) \/ get_lines_lock(t) \/ get_lines_get(t)
        \/ get_lines_rlock(t) \/ get_lines_entry(t) \/ get_lines_done(t)
        \/ get_info_call(t) \/ get_info_lock(t) \/ get_info_get(t)
        \/ get_info_rlock(t) \/ get_info_body(t)
        \/ resize_viewport(t)

Ops ==
    \E t \in Threads :
        \/ contains_call(t) \/ contains_lock(t) \/ contains_body(t)
        \/ insert_chart_call(t) \/ insert_chart_lock(t) \/ insert_chart_body(t)
        \/ new_label_call(t) \/ new_label_lock(t) \/ new_label_get(t)
        \/ new_label_wlock(t) \/ new_label_body(t)
        \/ insert_data_call(t) \/ insert_data_lock(t) \/ insert_data_get(t)
        \/ insert_data_wlock(t) \/ insert_data_body(t) \/ insert_data_push(t)
        \/ get_lines_call(t) \/ get_lines_lock(t) \/ get_lines_get(t)
        \/ get_lines_rlock(t) \/ get_lines_entry(t) \/ get_lines_done(t)
        \/ get_info_call(t) \/ get_info_lock(t) \/ get_info_get(t)
        \/ get_info_rlock(t) \/ get_info_body(t)
        \/ resize_viewport(t)

\* A step of thread t inside the method it has entered.
Running(t) ==
    \/ contains_lock(t) \/ contains_body(t)
    \/ insert_chart_lock(t) \/ insert_chart_body(t)
    \/ new_label_lock(t) \/ new_label_get(t)
    \/ new_label_wlock(t) \/ new_label_body(t)
    \/ insert_data_lock(t) \/ insert_data_get(t)
    \/ insert_data_wlock(t) \/ insert_data_body(t) \/ insert_data_push(t)
    \/ get_lines_lock(t) \/ get_lines_get(t)
    \/ get_lines_rlock(t) \/ get_lines_entry(t) \/ get_lines_done(t)
    \/ get_info_lock(t) \/ get_info_get(t)
    \/ get_info_rlock(t) \/ get_info_body(t)

\* Scheduling: a thread that can run keeps running, and a thread that waits
\* for a lock is granted it when the lock is free again and again.
Fairness == \A t \in Threads : SF_vars(Running(t))

Spec == Init /\ [][Next]_vars
SpecData == InitData /\ [][Ops]_vars
SpecProgress == InitProgress /\ [][Ops]_vars /\ Fairness

\* ================================================================ claims
Present(i) == charts[i] # None
IsPassThru(i) == charts[i].chart.info.chart_type[1] = "PassThru"
IsStack(i) == charts[i].chart.info.chart_type[1] = "Stack"
Capacity(i) == charts[i].chart.info.chart_type[2]
Samples(i, l) == charts[i].chart.lines[l][1]
Registered(i) == DOMAIN charts[i].chart.lines

\* Thread t is between the pop_front and the push_back of an insertion into line l of chart i.
Inserting(i, l) ==
    \E t \in Threads : pc[t] = "id_push" /\ cur[t].index = i /\ cur[t].label = l

\* The last n elements of s, all of s when it has fewer.
LastN(s, n) == IF Len(s) <= n THEN s ELSE SubSeq(s, Len(s) - n + 1, Len(s))

\* C1: every line of a chart created as PassThru(capacity), for every capacity
\* new_plot accepts, holds at most capacity samples in every reachable state.
C1_SlidingWindowCap ==
    \A i \in Ids : (Present(i) /\ IsPassThru(i)) =>
        \A l \in Registered(i) : Len(Samples(i, l)) <= Capacity(i)

\* C2: on a PassThru(C) chart a line that is not in the middle of an insertion
\* holds the last C of the samples inserted since its registration, in insertion
\* order, and all of them when fewer than C were inserted.
C2_SlidingWindowContents ==
    \A i \in Ids : (Present(i) /\ IsPassThru(i)) =>
        \A l \in Registered(i) :
            ~Inserting(i, l) => Samples(i, l) = LastN(hist[i][l], Capacity(i))

\* C1 and C2 for the capacities of at least 1 (supporting facts).
SlidingWindowCapPositive ==
    \A i \in Ids : (Present(i) /\ IsPassThru(i) /\ Capacity(i) >= 1) =>
        \A l \in Registered(i) : Len(Samples(i, l)) <= Capacity(i)
SlidingWindowContentsPositive ==
    \A i \in Ids : (Present(i) /\ IsPassThru(i) /\ Capacity(i) >= 1) =>
        \A l \in Registered(i) :
            ~Inserting(i, l) => Samples(i, l) = LastN(hist[i][l], Capacity(i))

\* C3: on a Stack chart every line holds exactly the samples inserted since its
\* registration, in insertion order: nothing is removed or reordered.
C3_UnboundedAccumulation ==
    \A i \in Ids : (Present(i) /\ IsStack(i)) =>
        \A l \in Registered(i) : Samples(i, l) = hist[i][l]

\* A Stack line that received three samples, the first two of them different.
C3_Witness ==
    \E i \in Ids : Present(i) /\ IsStack(i) /\
        \E l \in Registered(i) :
            Len(Samples(i, l)) = 3 /\ Samples(i, l)[1] # Samples(i, l)[2]

\* An unexpired entry of map m under key i at instant t.
Live(m, i, t) == m[i] # None /\ t - m[i].last <= m[i].tti
\* An entry that outlived its idle timeout and is still in the table.
Expired(i) == charts[i] # None /\ now - charts[i].last > charts[i].tti
ChartOf(m, i) == IF m[i] = None THEN None ELSE m[i].chart
LinesIn(m) ==
    [i \in DOMAIN m |-> IF m[i] = None THEN [present |-> FALSE, lines |-> <<>>]
                        ELSE [present |-> TRUE, lines |-> m[i].chart.lines]]
LookupPcs == {"nl_get", "id_get", "gl_get", "gi_get"}

\* C4: insert_chart on an absent id returns Ok and leaves a live chart without
\* labels under the id; on a present id it returns AlreadyExistIndexError and
\* changes no chart; at most one thread is between the duplicate check and the
\* insert, so of several concurrent calls on one id exactly one succeeds.
C4_CreateNeverOverwrites ==
    /\ [](Cardinality({t \in Threads : pc[t] = "ic_body"}) <= 1)
    /\ [][\A t \in Threads : (pc[t] = "ic_body" /\ pc'[t] = "idle") =>
            LET i == cur[t].index IN
            IF Live(charts, i, now)
            THEN /\ ret'[t] = "AlreadyExistIndexError"
                 /\ \A j \in Ids : ChartOf(charts', j) = ChartOf(charts, j)
            ELSE /\ ret'[t] = Ok
                 /\ Live(charts', i, now')
                 /\ charts'[i].chart.lines = EmptyLines]_vars

\* A chart that was created once holds a line with samples; one thread was told
\* Ok and the other AlreadyExistIndexError.
C4_Witness ==
    \E i \in Ids, t1, t2 \in Threads :
        /\ Present(i) /\ life[i].gen = 1
        /\ \E l \in Registered(i) : Samples(i, l) # <<>>
        /\ ret[t1] = Ok /\ ret[t2] = "AlreadyExistIndexError"

\* C5: insert_data returns InvalidChartNumberError when the id is absent, before
\* any label is looked at, and InvalidLineLabelError when the chart is there and
\* the label is not registered; no step of a failing call changes any line.
C5_InsertErrors ==
    [][\A t \in Threads :
        /\ (pc[t] = "id_get" /\ pc'[t] # "id_get") =>
              IF Live(charts, cur[t].index, now)
              THEN pc'[t] = "id_wlock"
              ELSE /\ pc'[t] = "idle"
                   /\ ret'[t] = "InvalidChartNumberError"
                   /\ charts' = charts
        /\ (pc[t] = "id_body" /\ pc'[t] = "idle") =>
              /\ ret'[t] = "InvalidLineLabelError"
              /\ Registered(cur[t].index) # Labels
              /\ LinesIn(charts') = LinesIn(charts)
        /\ (pc[t] = "id_body" /\ pc'[t] = "id_push") =>
              cur'[t].label \in Registered(cur[t].index)
        /\ (pc[t] \in {"id_lock", "id_wlock"} /\ pc'[t] # pc[t]) =>
              LinesIn(charts') = LinesIn(charts)]_vars

\* Both errors were returned, and the chart still holds a line with samples.
C5_Witness ==
    \E t1, t2 \in Threads :
        /\ ret[t1] = "InvalidChartNumberError" /\ ret[t2] = "InvalidLineLabelError"
        /\ \E i \in Ids : Present(i) /\ \E l \in Registered(i) : Samples(i, l) # <<>>

\* C6: new_label on an absent id returns InvalidChartNumberError and changes
\* nothing; on a present id it cannot fail, and it leaves the label with no
\* samples and the given color whatever it held, every other label as it was.
C6_RegisterLabel ==
    [][\A t \in Threads :
        /\ (pc[t] = "nl_get" /\ pc'[t] # "nl_get") =>
              IF Live(charts, cur[t].index, now)
              THEN pc'[t] = "nl_wlock"
              ELSE /\ pc'[t] = "idle"
                   /\ ret'[t] = "InvalidChartNumberError"
                   /\ charts' = charts
        /\ (pc[t] = "nl_wlock" /\ pc'[t] # "nl_wlock") => pc'[t] = "nl_body"
        /\ (pc[t] = "nl_body" /\ pc'[t] # "nl_body") =>
              LET i == cur[t].index
                  old == charts[i].chart.lines
                  new == charts'[i].chart.lines
              IN /\ pc'[t] = "idle" /\ ret'[t] = Ok
                 /\ charts'[i].chart.info = charts[i].chart.info
                 /\ \E L \in Labels, c \in Colors :
                      /\ DOMAIN new = DOMAIN old \cup {L}
                      /\ new[L] = <<(<<>>), c>>
                      /\ \A l \in DOMAIN old \ {L} : new[l] = old[l]]_vars

\* A registration returned Ok on a chart where one label is empty and the other
\* holds samples, while the other thread's insertion had returned Ok.
C6_Witness ==
    \E i \in Ids, l1, l2 \in Labels :
        /\ Present(i) /\ {l1, l2} \subseteq Registered(i)
        /\ Samples(i, l1) = <<>> /\ Len(Samples(i, l2)) >= 2
        /\ \A t \in Threads : ret[t] = Ok /\ pc[t] = "idle"

\* C7: once an entry has outlived its idle timeout, contains answers false and
\* new_label, insert_data, get_lines_as_json_string and get_info_as_json_string
\* answer InvalidChartNumberError, with the entry still in the table or not; the
\* entry stays expired until it is swept or insert_chart replaces it.
C7_IdleEviction ==
    [][/\ \A t \in Threads :
            /\ (pc[t] \in LookupPcs /\ pc'[t] # pc[t] /\ ~Live(charts, cur[t].index, now)) =>
                  pc'[t] = "idle" /\ ret'[t] = "InvalidChartNumberError"
            /\ (pc[t] = "c_body" /\ pc'[t] # pc[t] /\ ~Live(charts, cur[t].index, now)) =>
                  ret'[t] = "false"
       /\ \A i \in Ids : Expired(i) =>
            \/ charts'[i] = None
            \/ now' - charts'[i].last > charts'[i].tti
            \/ \E t \in Threads : pc[t] = "ic_body" /\ cur[t].index = i]_vars

\* Both entries are in the table, one of them expired; one thread was answered
\* InvalidChartNumberError and the other false.
C7_Witness ==
    /\ \A i \in Ids : Present(i)
    /\ \E i \in Ids : Expired(i)
    /\ \E t1, t2 \in Threads : ret[t1] = "InvalidChartNumberError" /\ ret[t2] = "false"

\* C8: insert_chart on the id of an expired entry returns Ok, and the chart then
\* found under the id is fresh: no label, a free lock, its idle timer started.
C8_ExpiredIdReusable ==
    [][\A t \in Threads :
        (pc[t] = "ic_body" /\ pc'[t] = "idle" /\ Expired(cur[t].index)) =>
            LET i == cur[t].index IN
            /\ ret'[t] = Ok
            /\ charts'[i] # None
            /\ charts'[i].chart.lines = EmptyLines
            /\ charts'[i].lock = FreeLock
            /\ charts'[i].last = now]_vars

\* An id was created a second time; its chart has no label.
C8_Witness ==
    \E i \in Ids, t \in Threads :
        life[i].gen = 2 /\ Present(i) /\ Registered(i) = {} /\ ret[t] = Ok

\* C9: a lookup by new_label, insert_data, get_lines_as_json_string or
\* get_info_as_json_string that finds a live entry restarts its idle timer and
\* does not fail, and no step removes a live entry from the table.
C9_IdleTimerReset ==
    [][/\ \A t \in Threads :
            (pc[t] \in LookupPcs /\ pc'[t] # pc[t] /\ Live(charts, cur[t].index, now)) =>
                /\ pc'[t] # "idle"
                /\ charts'[cur[t].index].last = now
                /\ Live(charts', cur[t].index, now')
       /\ \A i \in Ids : Live(charts, i, now) =>
            /\ charts'[i] # None
            /\ life'[i] = life[i]
            /\ charts'[i].last >= charts[i].last]_vars

\* A chart is live although more than its idle timeout has passed since its
\* creation, and a thread whose lookup found it is about to lock it.
C9_Witness ==
    \E i \in Ids, t \in Threads :
        /\ Live(charts, i, now) /\ now - life[i].born > charts[i].tti
        /\ pc[t] \in {"nl_wlock", "id_wlock", "gl_rlock", "gi_rlock"} /\ cur[t].index = i
        /\ charts[i].last = now

Mutating(i) == {t \in Threads : pc[t] \in {"nl_body", "id_body", "id_push"} /\ cur[t].index = i}
Serializing(i) == {t \in Threads : pc[t] \in {"gl_ser", "gi_body"} /\ cur[t].index = i}
Waiting(i) ==
    {t \in Threads : pc[t] \in {"nl_wlock", "id_wlock", "gl_rlock", "gi_rlock"} /\ cur[t].index = i}

\* C10: at most one thread is inside a mutation of a chart, no thread serializes
\* a chart while a mutation of it is in progress, and what a thread has
\* serialized so far of the lines is what the lines hold now.
C10_ChartExclusion ==
    \A i \in Ids :
        /\ Cardinality(Mutating(i)) <= 1
        /\ Mutating(i) # {} => Serializing(i) = {}
        /\ \A t \in Serializing(i) : pc[t] = "gl_ser" =>
              \A l \in DOMAIN acc[t] :
                  l \in Registered(i) /\ acc[t][l] = charts[i].chart.lines[l]

\* One thread is between pop_front and push_back on a chart while the other
\* waits for the chart's lock.
C10_Witness ==
    \E i \in Ids, t1, t2 \in Threads :
        pc[t1] = "id_push" /\ t1 \in Mutating(i) /\ t2 \in Waiting(i)

\* The line left by inserting the samples one after another into `line` on a
\* chart of the given type: each insertion first drops the oldest sample when
\* the line holds exactly the viewport size, then appends.
RECURSIVE Replay(_, _, _)
Replay(line, samples, chart_type) ==
    IF samples = <<>> THEN line
    ELSE LET full == chart_type[1] = "PassThru" /\ Len(line) = chart_type[2]
             kept == IF full /\ line # <<>> THEN Tail(line) ELSE line
         IN Replay(Append(kept, Head(samples)), Tail(samples), chart_type)

\* The line that the successful insertions since the registration of l add up to.
Sequential(i, l) == Replay(<<>>, hist[i][l], charts[i].chart.info.chart_type)

\* C11: a line that is not in the middle of an insertion is the result of the
\* successful insertions since its registration applied one after another, none
\* lost; no thread serializes a chart while an insertion is between pop_front
\* and push_back, and every line a snapshot has read is such a result.
C11_AtomicInsertions ==
    \A i \in Ids : Present(i) =>
        /\ \A l \in Registered(i) : ~Inserting(i, l) => Samples(i, l) = Sequential(i, l)
        /\ (\E l \in Labels : Inserting(i, l)) => Serializing(i) = {}
        /\ \A t \in Serializing(i) : pc[t] = "gl_ser" =>
              \A l \in DOMAIN acc[t] : acc[t][l][1] = Sequential(i, l)

\* An insertion into a full sliding window has removed the oldest sample and
\* not yet appended, while a second insertion into the same chart waits.
C11_Witness ==
    \E i \in Ids, l \in Labels, t1, t2 \in Threads :
        /\ Present(i) /\ IsPassThru(i) /\ Capacity(i) >= 1
        /\ pc[t1] = "id_push" /\ cur[t1].index = i /\ cur[t1].label = l
        /\ Len(hist[i][l]) >= Capacity(i)
        /\ Len(Samples(i, l)) = Capacity(i) - 1
        /\ pc[t2] = "id_wlock" /\ cur[t2].index = i

\* Thread t holds the RwLock of chart i, the RwLock of the registry.
HoldsChartLock(t, i) ==
    Present(i) /\ (charts[i].lock.writer = t \/ t \in charts[i].lock.readers)
HoldsRegistry(t) == reg.writer = t \/ t \in reg.readers

\* C12: no thread holds the registry lock while it holds the lock of a chart,
\* and no thread holds the locks of two charts.
C12_LockOrdering ==
    \A t \in Threads :
        /\ \A i \in Ids : HoldsChartLock(t, i) => ~HoldsRegistry(t)
        /\ Cardinality({i \in Ids : HoldsChartLock(t, i)}) <= 1

\* What holds of the locks (supporting facts): a thread holds the lock of at
\* most one chart, and while it does it holds the registry lock for reading.
OneChartLockAtATime ==
    \A t \in Threads : Cardinality({i \in Ids : HoldsChartLock(t, i)}) <= 1
RegistryReadHeldWithChartLock ==
    \A t \in Threads, i \in Ids :
        HoldsChartLock(t, i) => t \in reg.readers /\ reg.writer = 0

\* Thread t waits for a lock that another thread holds in a conflicting mode.
Blocked(t) ==
    \/ pc[t] \in {"c_lock", "nl_lock", "id_lock", "gl_lock", "gi_lock"} /\ ~CanRead(reg)
    \/ pc[t] = "ic_lock" /\ ~CanWrite(reg)
    \/ pc[t] \in {"nl_wlock", "id_wlock"} /\ ~CanWrite(charts[cur[t].index].lock)
    \/ pc[t] \in {"gl_rlock", "gi_rlock"} /\ ~CanRead(charts[cur[t].index].lock)
Unfinished == {t \in Threads : pc[t] # "idle"}

\* In no state is every unfinished thread unable to take its next step.
NoDeadlock == Unfinished # {} => \E t \in Unfinished : ENABLED Running(t)

\* C13: in no reachable state is every unfinished thread waiting for a lock, and
\* under fair scheduling (a thread whose next step is possible again and again
\* takes it) every call a thread has started returns a result or an error.
C13_DeadlockFreedomProgress ==
    /\ []NoDeadlock
    /\ \A t \in Threads : (pc[t] # "idle") ~> (pc[t] = "idle" /\ ret[t] \in Error \cup {Ok, "true", "false"})

\* A thread waits for the registry's write lock while the other thread holds
\* the registry's read lock and the write lock of a chart.
C13_Witness ==
    \E t1, t2 \in Threads, i \in Ids :
        /\ pc[t1] = "ic_lock" /\ Blocked(t1)
        /\ t2 \in reg.readers /\ Present(i) /\ charts[i].lock.writer = t2

\* The threads in the middle of a mutation or a serialization of chart i.
Working(i) == Mutating(i) \cup Serializing(i)
RegistryReadPcs == {"c_lock", "nl_lock", "id_lock", "gl_lock", "gi_lock"}

\* C14: while a thread is in the middle of a mutation or a serialization of
\* chart a, another thread about to resolve or insert another id is not made to
\* wait: its read lock (contains, the lookups) or write lock (insert_chart) of
\* the registry can be taken at once.
C14_NoCrossChartBlocking ==
    \A a \in Ids, t1, t2 \in Threads :
        (t1 \in Working(a) /\ t2 # t1 /\ Ids \ {a} # {}) =>
            /\ pc[t2] \in RegistryReadPcs => CanRead(reg)
            /\ pc[t2] = "ic_lock" => CanWrite(reg)

\* What holds (supporting fact): work on a chart never makes contains or a
\* lookup wait, since the registry lock is then held for reading only.
ResolutionNotBlocked ==
    \A a \in Ids, t1, t2 \in Threads :
        (t1 \in Working(a) /\ t2 # t1 /\ pc[t2] \in RegistryReadPcs) => CanRead(reg)

SnapshotWaitPcs == {"gl_rlock", "gi_rlock"}

\* C15: a serialization in progress never makes another serialization of the
\* same chart wait: a thread about to take the chart's lock for a snapshot can
\* take it whenever no mutation of the chart is in progress, in particular
\* while other threads are serializing the chart.
C15_ConcurrentSnapshots ==
    \A i \in Ids, t \in Threads :
        (pc[t] \in SnapshotWaitPcs /\ cur[t].index = i /\ Mutating(i) = {}) =>
            ENABLED (get_lines_rlock(t) \/ get_info_rlock(t))

\* Two threads serialize the same chart at the same time, one of them its lines.
C15_Witness ==
    \E i \in Ids, t1, t2 \in Threads :
        /\ t1 # t2 /\ t1 \in Serializing(i) /\ t2 \in Serializing(i)
        /\ pc[t1] = "gl_ser" /\ acc[t1] # <<>>

\* insert_chart stores a new chart under id i in this step.
CreatedNow(i) ==
    \E t \in Threads : pc[t] = "ic_body" /\ cur[t].index = i /\ ret'[t] = Ok

\* C16: no step of any registry operation changes the caption, chart type
\* (with its viewport size), interval or y-range of a chart that stays in the
\* registry; only insert_chart storing a new chart under the id sets them.
C16_MetadataFixed ==
    [][\A i \in Ids :
        (Present(i) /\ charts'[i] # None /\ ~CreatedNow(i)) =>
            charts'[i].chart.info = charts[i].chart.info]_vars

\* A sliding-window chart has a full line, one thread has just received its
\* metadata and the other has failed to create the same id again.
C16_Witness ==
    \E i \in Ids, l \in Labels, t1, t2 \in Threads :
        /\ Present(i) /\ IsPassThru(i) /\ Capacity(i) >= 1
        /\ l \in Registered(i) /\ Len(hist[i][l]) > Capacity(i)
        /\ pc[t1] = "gi_body" /\ cur[t1].index = i
        /\ ret[t2] = "AlreadyExistIndexError"

\* The id that thread t addresses in the step it takes now: the index is read
\* when the registry lock is taken, and kept until the method returns.
Addressed(t) == IF cur[t].index # 0 THEN cur[t].index ELSE cur'[t].index
Stepping(t) == pc'[t] # pc[t] \/ acc'[t] # acc[t]

\* C17: a step of a method called on id a leaves the info and the lines
\* (labels, samples, colors) of every other live chart as they were.
C17_CrossChartIsolation ==
    [][\A t \in Threads : Stepping(t) =>
        \A b \in Ids :
            (b # Addressed(t) /\ Live(charts, b, now)) =>
                /\ charts'[b] # None
                /\ charts'[b].chart = charts[b].chart]_vars

\* Both charts are live, only one of them has a label, with a sample, and both
\* threads have returned from a successful call.
C17_Witness ==
    \E a, b \in Ids, l \in Labels :
        /\ a # b /\ Live(charts, a, now) /\ Live(charts, b, now)
        /\ l \in Registered(a) /\ Samples(a, l) # <<>>
        /\ Registered(b) = {}
        /\ \A t \in Threads : pc[t] = "idle" /\ ret[t] = Ok

\* Thread t completes contains or a lookup on an id that is not in the registry.
MissesNow(t, i) ==
    /\ pc[t] \in LookupPcs \cup {"c_body"}
    /\ cur[t].index = i
    /\ pc'[t] # pc[t]
    /\ ~Live(charts, i, now)

\* C18: an id enters the registry only in the step in which insert_chart stores
\* a chart under it and returns Ok: no other step turns an absent or expired id
\* into a live one or fills an empty slot, and contains or a lookup on an id that
\* is not live answers false or InvalidChartNumberError and leaves it not live.
C18_OnlyCreateAddsIds ==
    [][/\ \A i \in Ids :
            (Live(charts', i, now') /\ ~Live(charts, i, now)) => CreatedNow(i)
       /\ \A i \in Ids :
            (charts'[i] # None /\ charts[i] = None) => CreatedNow(i)
       /\ \A t \in Threads, i \in Ids : MissesNow(t, i) =>
            /\ ~Live(charts', i, now')
            /\ pc'[t] = "idle"
            /\ ret'[t] = IF pc[t] = "c_body" THEN "false" ELSE "InvalidChartNumberError"]_vars

\* One id is live; the other was never created, contains has answered false
\* and a lookup InvalidChartNumberError.
C18_Witness ==
    \E a, b \in Ids, t1, t2 \in Threads :
        /\ a # b /\ Live(charts, a, now)
        /\ charts[b] = None /\ life[b].gen = 0
        /\ ret[t1] = "false" /\ ret[t2] = "InvalidChartNumberError"

\* Thread t is about to run Chart::insert_data on chart i and can complete
\* the step with label l without an error.
CanInsert(t, i, l) ==
    ENABLED (insert_data_body(t) /\ cur'[t].label = l /\ pc'[t] = "id_push")

\* C19: a registered label stays registered for as long as its chart stays in
\* the registry (only insert_chart storing a new chart under the id starts
\* again without labels); an insertion with a registered label is carried out
\* and never returns InvalidLineLabelError, and a finished serialization of the
\* lines holds every registered label.
C19_LabelsPersist ==
    /\ [](\A i \in Ids, t \in Threads :
            (pc[t] = "id_body" /\ cur[t].index = i) =>
                \A l \in Registered(i) : CanInsert(t, i, l))
    /\ [][\A i \in Ids :
            /\ (Present(i) /\ charts'[i] # None /\ ~CreatedNow(i)) =>
                  Registered(i) \subseteq DOMAIN charts'[i].chart.lines
            /\ \A t \in Threads :
                  (pc[t] = "id_body" /\ cur[t].index = i /\ Registered(i) = Labels
                        /\ pc'[t] # pc[t]) =>
                      pc'[t] = "id_push"
            /\ \A t \in Threads :
                  (pc[t] = "gl_ser" /\ cur[t].index = i /\ pc'[t] = "idle") =>
                      /\ ret'[t] = Ok
                      /\ Registered(i) \subseteq DOMAIN acc[t]]_vars

\* Both labels are registered, each holds a sample, and a serialization has
\* read both labels.
C19_Witness ==
    \E i \in Ids, t \in Threads :
        /\ Present(i) /\ Registered(i) = Labels /\ Cardinality(Labels) >= 2
        /\ \A l \in Labels : Samples(i, l) # <<>>
        /\ pc[t] = "gl_ser" /\ cur[t].index = i /\ DOMAIN acc[t] = Labels

====
